---- MODULE Spec2Model ----
(***************************************************************************)
(* Moodbeats backend: the playlist store (models/playlist.model.js and the *)
(* /api/playlists routes of server.js), the mood filter and the catalog    *)
(* proxy / track aggregator routes of server.js.                           *)
(*                                                                         *)
(* Strings that the code inspects character by character (playlist names,  *)
(* track titles) are sequences of UTF-16 code units.  Audio features and   *)
(* mood intervals are in tenths (0.6 is 6).                                *)
(***************************************************************************)
EXTENDS Integers, Sequences, FiniteSets, TLC

VARIABLES users, playlists, songs, accessToken, res, saved, moodIn, moodOut,
          catEnv, catRes, unhandled, procs

\* users:       the User collection, user id -> [playlists: references in order]
\* playlists:   the Playlist collection, playlist id -> document
\* songs:       the Song collection, catalog id (unique) -> the document's _id
\* accessToken: the module-level cached catalog credential
\* res:         the response to the last request
\* saved:       whether the last request ran save() on a playlist document
\* moodIn:      the arguments of a filterTracksByMood call and the catalog's
\*              answer to its audio-features request
\* moodOut:     what the call resolved to
\* catEnv:      what the catalog service did during the last catalog route
\*              request: the route, the failure that occurred (if any) and
\*              each source's answer
\* catRes:      the response of that request (status 0: none was sent)
\* unhandled:   whether the handler's promise rejected with nobody catching it
\* procs:       the requests in flight whose handlers are followed await by
\*              await: request -> the handler's position and its locals
\* createdAt / updatedAt hold Date.now() readings that no route reads for a
\* decision; they are not part of the state.
storeVars == <<users, playlists, songs>>
moodVars == <<moodIn, moodOut>>
catVars == <<catEnv, catRes, unhandled>>
procVars == <<procs>>
vars == <<users, playlists, songs, accessToken, res, saved, moodIn, moodOut,
          catEnv, catRes, unhandled, procs>>

\* ------------------------------------------------------------------ bounds
MaxPlaylists == 2
MaxRefs == 2
MaxStored == 3
MaxTracks == 2
MaxActive == 2
MaxFetched == 1
MaxRequests == 3
MaxClients == 2

\* ------------------------------------------------------------ input domains
\* "Chill", "chill", "Work" as code units; <<>> is a missing / empty name
Chill == <<67, 104, 105, 108, 108>>
chill == <<99, 104, 105, 108, 108>>
Work == <<87, 111, 114, 107>>
NoName == <<>>
PlaylistNames == {Chill, chill, Work}

\* users that have a document; the session middleware resolves requests to them
UserIds == {1, 2}

\* catalog track ids that resolve at the catalog service, one that does not,
\* and 0 for a request body without spotifyId
CatalogTracks == {1, 2}
UnknownTracks == {9}
NoTrack == {0}
RequestedTracks == CatalogTracks \cup UnknownTracks \cup NoTrack

\* _id of the Song document of a catalog track: an ObjectId of its own
songObjectId(t) == 100 + t
AllSongIds == {songObjectId(t) : t \in CatalogTracks}

NoToken == ""
Token == "tok"
\* credentials the catalog service issues
Tokens == {"tok", "tok2"}

NoImage == "none"

\* no catalog route request handled yet
NoCatEnv == [op |-> "none", failure |-> "none", fetch |-> <<>>]
NoCatRes == [status |-> 0, json |-> FALSE, error |-> "", body |-> {}]

\* no request is followed await by await
NoProcs == <<>>

\* no filterTracksByMood call made / not resolved yet
NoMoodCall == [tracks |-> <<>>, mood |-> "", lookupOk |-> FALSE, audio_features |-> <<>>]
NotRun == <<-1>>

\* ------------------------------------------------------------------ helpers
Range(s) == {s[i] : i \in 1..Len(s)}

RECURSIVE SumLen(_, _)
SumLen(f, D) ==
  IF D = {} THEN 0
  ELSE LET d == CHOOSE x \in D : TRUE IN Len(f[d].songs) + SumLen(f, D \ {d})

\* String.prototype.toLowerCase on one code unit and on a string
LowerChar(c) == IF c >= 65 /\ c <= 90 THEN c + 32 ELSE c
toLowerCase(s) == [i \in 1..Len(s) |-> LowerChar(s[i])]

\* MongooseArray.includes on an array of ObjectIds: comparison by value
Includes(arr, id) == \E i \in 1..Len(arr) : arr[i] = id

RECURSIVE Filter(_, _)
Filter(s, keep) ==
  IF s = <<>> THEN <<>>
  ELSE IF Head(s) \in keep THEN <<Head(s)>> \o Filter(Tail(s), keep)
       ELSE Filter(Tail(s), keep)

\* res.json(...) / res.status(...).json({error})
Ok(op, status, body) == [op |-> op, status |-> status, error |-> "", body |-> body]
Err(op, status, msg) == [op |-> op, status |-> status, error |-> msg, body |-> <<>>]
NoRes == [op |-> "none", status |-> 0, error |-> "", body |-> <<>>]

\* --------------------------------------------------- playlist.model.js
\* new Playlist({name, description, user})
NewPlaylist(name, description, u) ==
  [name |-> name, description |-> description, user |-> u, songs |-> <<>>,
   image |-> NoImage, spotifyId |-> ""]

addSongNoCheck(p, songId) ==
  [doc |-> [p EXCEPT !.songs = Append(@, songId)], saved |-> TRUE]

\* playlistSchema.methods.addSong: the document after the call, and whether
\* this.save() ran
addSong(p, songId) ==
  IF ~Includes(p.songs, songId)
  THEN [doc |-> [p EXCEPT !.songs = Append(@, songId)], saved |-> TRUE]
  ELSE [doc |-> p, saved |-> FALSE]

\* playlistSchema.methods.removeSong
removeSong(p, songId) ==
  [doc |-> [p EXCEPT !.songs = Filter(@, Range(@) \ {songId})], saved |-> TRUE]

\* ---------------------------------------------------------- server.js
PlaylistIds == DOMAIN playlists

\* Song.findOneAndUpdate({spotifyId}, {...}, {upsert: true, new: true})
upsertSong(spotifyId) ==
  IF spotifyId \in DOMAIN songs THEN songs
  ELSE [t \in DOMAIN songs \cup {spotifyId} |->
          IF t = spotifyId THEN songObjectId(spotifyId) ELSE songs[t]]

existingPlaylistCaseSensitive(u, name) ==
  \E i \in 1..Len(users[u].playlists) :
    playlists[users[u].playlists[i]].name = name

\* user.playlists.find(p => p.name.toLowerCase() === name.toLowerCase())
existingPlaylist(u, name) ==
  \E i \in 1..Len(users[u].playlists) :
    toLowerCase(playlists[users[u].playlists[i]].name) = toLowerCase(name)

isOwnerAlways(p, u) == TRUE

\* playlist.user.toString() !== userId, negated
isOwner(p, u) == playlists[p].user = u

uniquePlaylistsLastWins(list) ==
  LET keep == {i \in 1..Len(list) :
                 \A j \in (i + 1)..Len(list) :
                   toLowerCase(playlists[list[j]].name)
                     # toLowerCase(playlists[list[i]].name)}
      RECURSIVE pick(_)
      pick(i) == IF i > Len(list) THEN <<>>
                 ELSE IF i \in keep THEN <<list[i]>> \o pick(i + 1)
                 ELSE pick(i + 1)
  IN pick(1)

\* seenNames / user.playlists.filter(...) of GET /api/playlists
RECURSIVE uniqueFrom(_, _)
uniqueFrom(list, seenNames) ==
  IF list = <<>> THEN <<>>
  ELSE LET nameLower == toLowerCase(playlists[Head(list)].name)
       IN IF nameLower \in seenNames
          THEN uniqueFrom(Tail(list), seenNames)
          ELSE <<Head(list)>> \o uniqueFrom(Tail(list), seenNames \cup {nameLower})

uniquePlaylists(list) == uniqueFrom(list, {})

\* POST /api/playlists
CreatePlaylist(u, name, description) ==
  /\ UNCHANGED <<moodVars, catVars, procVars>>
  /\ UNCHANGED <<songs, accessToken>>
  /\ IF name = NoName
     THEN /\ res' = Err("create", 400, "Playlist name is required")
          /\ saved' = FALSE
          /\ UNCHANGED <<users, playlists>>
     ELSE IF u \notin DOMAIN users
     THEN /\ res' = Err("create", 404, "User not found")
          /\ saved' = FALSE
          /\ UNCHANGED <<users, playlists>>
     ELSE IF existingPlaylist(u, name)
     THEN /\ res' = Err("create", 400, "A playlist with this name already exists")
          /\ saved' = FALSE
          /\ UNCHANGED <<users, playlists>>
     ELSE LET id == Cardinality(PlaylistIds) + 1
          IN /\ id <= MaxPlaylists
             /\ playlists' = [q \in PlaylistIds \cup {id} |->
                                IF q = id THEN NewPlaylist(name, description, u)
                                ELSE playlists[q]]
             /\ users' = [users EXCEPT ![u].playlists = Append(@, id)]
             /\ saved' = TRUE
             /\ res' = Ok("create", 201, <<id>>)

\* GET /api/playlists
ListPlaylists(u) ==
  /\ UNCHANGED <<moodVars, catVars, procVars>>
  /\ UNCHANGED <<storeVars, accessToken>>
  /\ saved' = FALSE
  /\ IF u \notin DOMAIN users
     THEN res' = Err("list", 404, "User not found")
     ELSE res' = Ok("list", 200, uniquePlaylists(users[u].playlists))

\* ensureAccessToken: the credential is requested only while none is cached, so
\* only then does the request have an outcome
TokenOutcomes == IF accessToken = NoToken THEN BOOLEAN ELSE {TRUE}

\* POST /api/playlists/:playlistId/songs
\* tokenOk: whether the credential request of getAccessToken succeeds
AddSongToPlaylist(u, p, spotifyId, tokenOk) ==
  /\ UNCHANGED <<moodVars, catVars, procVars>>
  /\ UNCHANGED users
  /\ IF spotifyId \in NoTrack
     THEN /\ res' = Err("addSong", 400, "Spotify track ID is required")
          /\ saved' = FALSE
          /\ UNCHANGED <<playlists, songs, accessToken>>
     ELSE IF p \notin PlaylistIds
     THEN /\ res' = Err("addSong", 404, "Playlist not found")
          /\ saved' = FALSE
          /\ UNCHANGED <<playlists, songs, accessToken>>
     ELSE IF ~isOwner(p, u)
     THEN /\ res' = Err("addSong", 403, "Unauthorized: Not your playlist")
          /\ saved' = FALSE
          /\ UNCHANGED <<playlists, songs, accessToken>>
     ELSE IF accessToken = NoToken /\ ~tokenOk
     THEN /\ res' = Err("addSong", 500, "Failed to add song to playlist")
          /\ saved' = FALSE
          /\ UNCHANGED <<playlists, songs, accessToken>>
     ELSE /\ accessToken' = Token
          /\ IF spotifyId \notin CatalogTracks
             THEN /\ res' = Err("addSong", 500, "Failed to add song to playlist")
                  /\ saved' = FALSE
                  /\ UNCHANGED <<playlists, songs>>
             ELSE LET songId == upsertSong(spotifyId)[spotifyId]
                      r == addSong(playlists[p], songId)
                  IN /\ r.saved => SumLen(playlists, PlaylistIds) < MaxRefs
                     /\ songs' = upsertSong(spotifyId)
                     /\ playlists' = [playlists EXCEPT ![p] = r.doc]
                     /\ saved' = r.saved
                     /\ res' = Ok("addSong", 200, r.doc.songs)

\* DELETE /api/playlists/:playlistId/songs/:songId
\* the response mapping reads the undeclared name savsong for every song left
RemoveSongFromPlaylist(u, p, songId) ==
  /\ UNCHANGED <<moodVars, catVars, procVars>>
  /\ UNCHANGED <<users, songs, accessToken>>
  /\ IF p \notin PlaylistIds
     THEN /\ res' = Err("removeSong", 404, "Playlist not found")
          /\ saved' = FALSE
          /\ UNCHANGED playlists
     ELSE IF ~isOwner(p, u)
     THEN /\ res' = Err("removeSong", 403, "Unauthorized: Not your playlist")
          /\ saved' = FALSE
          /\ UNCHANGED playlists
     ELSE LET r == removeSong(playlists[p], songId)
          IN /\ playlists' = [playlists EXCEPT ![p] = r.doc]
             /\ saved' = r.saved
             /\ IF r.doc.songs # <<>>
                THEN res' = Err("removeSong", 500, "Failed to remove song from playlist")
                ELSE res' = Ok("removeSong", 200, r.doc.songs)

\* GET /api/playlists/:playlistId/play
PlayPlaylist(u, p) ==
  /\ UNCHANGED <<moodVars, catVars, procVars>>
  /\ UNCHANGED <<storeVars, accessToken>>
  /\ saved' = FALSE
  /\ IF p \notin PlaylistIds
     THEN res' = Err("play", 404, "Playlist not found")
     ELSE IF ~isOwner(p, u)
     THEN res' = Err("play", 403, "Unauthorized: Not your playlist")
     ELSE res' = Ok("play", 200, playlists[p].songs)

Init ==
  /\ users = [u \in UserIds |-> [playlists |-> <<>>]]
  /\ playlists = <<>>
  /\ songs = [t \in {} |-> 0]
  /\ accessToken = NoToken
  /\ res = NoRes
  /\ saved = FALSE
  /\ moodIn = NoMoodCall
  /\ moodOut = NotRun
  /\ catEnv = NoCatEnv
  /\ catRes = NoCatRes
  /\ unhandled = FALSE
  /\ procs = NoProcs

Next ==
  \/ \E u \in UserIds, name \in PlaylistNames \cup {NoName} :
       CreatePlaylist(u, name, "")
  \/ \E u \in UserIds : ListPlaylists(u)
  \/ \E u \in UserIds, p \in 1..MaxPlaylists,
        t \in RequestedTracks, tokenOk \in TokenOutcomes :
       AddSongToPlaylist(u, p, t, tokenOk)
  \/ \E u \in UserIds, p \in 1..MaxPlaylists, s \in AllSongIds :
       RemoveSongFromPlaylist(u, p, s)
  \/ \E u \in UserIds, p \in 1..MaxPlaylists : PlayPlaylist(u, p)

Spec == Init /\ [][Next]_vars

\* ------------------------------------------------- stored playlist lists
\* The User collection can hold, for one owner, references to playlists whose
\* names match ignoring case (the name check of POST /api/playlists is not a
\* store constraint).  InitList draws such stored states: MaxStored playlists
\* at most, each with any name and any owner, referenced in creation order.
InitList ==
  \E n \in 0..MaxStored :
    \E names \in [1..n -> PlaylistNames], owner \in [1..n -> UserIds] :
      /\ playlists = [i \in 1..n |-> NewPlaylist(names[i], "", owner[i])]
      /\ users = [u \in UserIds |->
                    [playlists |-> Filter([i \in 1..n |-> i],
                                          {i \in 1..n : owner[i] = u})]]
      /\ songs = [t \in {} |-> 0]
      /\ accessToken = NoToken
      /\ res = NoRes
      /\ saved = FALSE
      /\ moodIn = NoMoodCall
      /\ moodOut = NotRun
      /\ catEnv = NoCatEnv
      /\ catRes = NoCatRes
      /\ unhandled = FALSE
      /\ procs = NoProcs

NextList == \E u \in UserIds : ListPlaylists(u)

SpecList == InitList /\ [][NextList]_vars

\* ------------------------------------------------------------ mood filter
\* moodProfiles, in tenths
moodProfiles ==
  [happy   |-> [valence |-> <<6, 10>>, energy |-> <<5, 10>>, danceability |-> <<5, 10>>],
   neutral |-> [valence |-> <<3, 6>>,  energy |-> <<3, 7>>,  danceability |-> <<3, 7>>],
   angry   |-> [valence |-> <<0, 4>>,  energy |-> <<7, 10>>, danceability |-> <<3, 8>>],
   sad     |-> [valence |-> <<0, 3>>,  energy |-> <<0, 5>>,  danceability |-> <<0, 5>>]]

ConfiguredMoods == DOMAIN moodProfiles

\* property names every object literal inherits from Object.prototype
InheritedKeys == {"toString", "constructor"}

\* mood strings passed to the filter
Moods == ConfiguredMoods \cup InheritedKeys \cup {"unknown-mood"}

Dims == {"valence", "energy", "danceability"}
\* the null entry the catalog answers for a track without audio features
Null == [d \in Dims |-> -1]

Corner(m, k) == [d \in Dims |-> moodProfiles[m][d][k]]

\* audio-feature triples: for every mood the two corners of its box and the
\* triples one tenth outside the box next to a corner
FeatureSamples ==
  UNION {
    {Corner(m, 1), Corner(m, 2)}
      \cup {[Corner(m, 1) EXCEPT ![d] = @ - 1] : d \in {e \in Dims : Corner(m, 1)[e] > 0}}
      \cup {[Corner(m, 2) EXCEPT ![d] = @ + 1] : d \in {e \in Dims : Corner(m, 2)[e] < 10}}
    : m \in ConfiguredMoods}


\* moodProfiles[mood]: an own property, an inherited one, or undefined
moodProfileOf(mood) ==
  IF mood \in ConfiguredMoods THEN "profile"
  ELSE IF mood \in InheritedKeys THEN "inherited"
  ELSE "undefined"

withinProfileOpenBelow(features, moodProfile) ==
  /\ features.valence > moodProfile.valence[1]
  /\ features.valence <= moodProfile.valence[2]
  /\ features.energy >= moodProfile.energy[1]
  /\ features.energy <= moodProfile.energy[2]
  /\ features.danceability >= moodProfile.danceability[1]
  /\ features.danceability <= moodProfile.danceability[2]

\* the six comparisons of the filter callback
withinProfile(features, moodProfile) ==
  /\ features.valence >= moodProfile.valence[1]
  /\ features.valence <= moodProfile.valence[2]
  /\ features.energy >= moodProfile.energy[1]
  /\ features.energy <= moodProfile.energy[2]
  /\ features.danceability >= moodProfile.danceability[1]
  /\ features.danceability <= moodProfile.danceability[2]

RECURSIVE filterFrom(_, _, _, _)
filterFrom(tracks, audio_features, moodProfile, index) ==
  IF index > Len(tracks) THEN <<>>
  ELSE IF audio_features[index] = Null
       THEN filterFrom(tracks, audio_features, moodProfile, index + 1)
       ELSE IF withinProfile(audio_features[index], moodProfile)
            THEN <<tracks[index]>>
                   \o filterFrom(tracks, audio_features, moodProfile, index + 1)
            ELSE filterFrom(tracks, audio_features, moodProfile, index + 1)

\* filterTracksByMood(tracks, mood), given whether the audio-features request
\* succeeds and what it answers.  For an inherited key moodProfile is a
\* function without valence: the callback returns false for a track without
\* features and throws a TypeError at the first track that has them, which
\* the catch turns into the unfiltered list.
filterTracksByMood(tracks, mood, lookupOk, audio_features) ==
  IF moodProfileOf(mood) = "undefined" THEN tracks
  ELSE IF ~lookupOk THEN tracks
  ELSE IF moodProfileOf(mood) = "inherited"
       THEN IF \E i \in 1..Len(tracks) : audio_features[i] # Null
            THEN tracks
            ELSE <<>>
  ELSE filterFrom(tracks, audio_features, moodProfiles[mood], 1)

InitMood ==
  /\ users = [u \in UserIds |-> [playlists |-> <<>>]]
  /\ playlists = <<>>
  /\ songs = [t \in {} |-> 0]
  /\ accessToken = NoToken
  /\ res = NoRes
  /\ saved = FALSE
  /\ moodOut = NotRun
  /\ catEnv = NoCatEnv
  /\ catRes = NoCatRes
  /\ unhandled = FALSE
  /\ procs = NoProcs
  /\ \E n \in 0..MaxTracks :
       \E f \in [1..n -> FeatureSamples \cup {Null}], mood \in Moods,
          lookupOk \in BOOLEAN :
         moodIn = [tracks |-> [i \in 1..n |-> i], mood |-> mood,
                   lookupOk |-> lookupOk, audio_features |-> f]

FilterTracksByMood ==
  /\ moodOut = NotRun
  /\ moodOut' = filterTracksByMood(moodIn.tracks, moodIn.mood, moodIn.lookupOk,
                                   moodIn.audio_features)
  /\ UNCHANGED <<users, playlists, songs, accessToken, res, saved, moodIn, catVars,
               procVars>>

NextMood == FilterTracksByMood

SpecMood == InitMood /\ [][NextMood]_vars

\* -------------------------------------------------- catalog proxy routes
\* track titles as code units: Latin "Tu", Devanagari and Gurmukhi "ta"
LatinName == <<84, 117>>
DevanagariName == <<2340>>
GurmukhiName == <<2596>>

\* one item of a playlist-tracks answer: item.track (null or not), the
\* track's name and whether its album's available_markets includes 'IN'
NullItem == [track |-> FALSE, name |-> <<>>, inIN |-> FALSE]
PlainItem == [track |-> TRUE, name |-> LatinName, inIN |-> TRUE]
Items ==
  {NullItem, PlainItem,
   [track |-> TRUE, name |-> DevanagariName, inIN |-> TRUE],
   [track |-> TRUE, name |-> GurmukhiName, inIN |-> TRUE],
   [track |-> TRUE, name |-> DevanagariName, inIN |-> FALSE]}

\* what one request to the catalog service does: reject, or answer a list
Failed == [ok |-> FALSE, items |-> <<>>]
Answer(items) == [ok |-> TRUE, items |-> items]
Plain(n) == Answer([k \in 1..n |-> PlainItem])
Usual == Plain(1)

SeqsUpTo(S, n) == UNION {[1..k -> S] : k \in 0..n}

\* answers of a playlist source and of a track source
PlaylistAnswers == {Failed} \cup {Answer(q) : q \in SeqsUpTo(Items, MaxFetched)}
TrackAnswers == {Failed} \cup {Plain(n) : n \in 0..MaxFetched}

RECURSIVE SubsetsUpTo(_, _)
SubsetsUpTo(S, k) ==
  IF k = 0 THEN {{}}
  ELSE LET P == SubsetsUpTo(S, k - 1)
       IN P \cup {A \cup {x} : A \in P, x \in S}

\* the sets of at most MaxActive of n track sources that do anything but
\* answer one track, and the answers of n sources given what those in A do
ActiveSets(n) == SubsetsUpTo(1..n, MaxActive)
SourceAnswers(n, A, g) == [i \in 1..n |-> IF i \in A THEN g[i] ELSE Usual]

\* the versions of the router the service can be built with: version 4 drops
\* a rejected handler promise, version 5 passes it to the default error
\* handler, which answers 500 with an HTML body
Routers == {"express4", "express5"}

\* the playlists object of /api/mixed-hits, in the order of the Promise.all
mixedHitsPlaylists ==
  <<[language |-> "english", limit |-> 20],
    [language |-> "punjabi", limit |-> 15],
    [language |-> "hindi", limit |-> 15]>>

\* the artists array of /api/mixed
mixedArtists ==
  <<[name |-> "Ed Sheeran", count |-> 4, language |-> "english"],
    [name |-> "Arijit Singh", count |-> 7, language |-> "hindi"],
    [name |-> "Neha Kakkar", count |-> 2, language |-> "hindi"],
    [name |-> "Diljit Dosanjh", count |-> 7, language |-> "punjabi"],
    [name |-> "Yung Kai Blue", count |-> 3, language |-> "punjabi"]>>

\* the artists array of /api/mixed1
mixed1Artists ==
  <<[name |-> "Ed Sheeran", count |-> 10, language |-> "english"],
    [name |-> "Yung Kai Blue", count |-> 5, language |-> "english"],
    [name |-> "Taylor Swift", count |-> 10, language |-> "english"],
    [name |-> "Dua Lipa", count |-> 8, language |-> "english"],
    [name |-> "The Weeknd", count |-> 8, language |-> "english"],
    [name |-> "Billie Eilish", count |-> 7, language |-> "english"],
    [name |-> "Post Malone", count |-> 7, language |-> "english"],
    [name |-> "Coldplay", count |-> 6, language |-> "english"],
    [name |-> "Harry Styles", count |-> 6, language |-> "english"],
    [name |-> "Arijit Singh", count |-> 10, language |-> "hindi"],
    [name |-> "Shreya Ghoshal", count |-> 8, language |-> "hindi"],
    [name |-> "Neha Kakkar", count |-> 7, language |-> "hindi"],
    [name |-> "Diljit Dosanjh", count |-> 8, language |-> "punjabi"],
    [name |-> "Sidhu Moosewala", count |-> 7, language |-> "punjabi"],
    [name |-> "Satinder Sartaaj", count |-> 7, language |-> "punjabi"],
    [name |-> "Karan Aujla", count |-> 7, language |-> "punjabi"],
    [name |-> "Kishore Kumar", count |-> 6, language |-> "hindi"],
    [name |-> "A.R. Rahman", count |-> 6, language |-> "hindi"]>>

\* songs.slice(0, 50) of /api/mixed-hits and /api/mixed1
SliceLimit == 50

Min(a, b) == IF a < b THEN a ELSE b

\* track.name.match(/[अ-ह]/) and track.name.match(/[ਁ-ੴ]/)
matchesDevanagari(name) == \E i \in 1..Len(name) : name[i] \in 2309..2361
matchesGurmukhi(name) == \E i \in 1..Len(name) : name[i] \in 2561..2676

\* the language expression of /api/mixed-hits
guessLanguage(track) ==
  IF track.inIN
  THEN IF matchesDevanagari(track.name) THEN "hindi"
       ELSE IF matchesGurmukhi(track.name) THEN "punjabi"
       ELSE "english"
  ELSE "english"

\* sort(() => 0.5 - Math.random()) leaves the songs in an order the contract
\* does not fix; a response body is the set of its songs.  slice(0, limit)
\* after the shuffle keeps any limit of them.
ShuffledSlice(all, limit) ==
  IF Cardinality(all) <= limit THEN {all}
  ELSE {T \in SUBSET all : Cardinality(T) = limit}

Json(status, error, body) ==
  [status |-> status, json |-> TRUE, error |-> error, body |-> body]

CatEnv(op, failure, fetch) == [op |-> op, failure |-> failure, fetch |-> fetch]

\* getAccessToken rejects inside ensureAccessToken
tokenFails(tokenOk) == accessToken = NoToken /\ ~tokenOk

\* await ensureAccessToken() in front of the handler's try block rejected
escapes(op, router) ==
  /\ catEnv' = CatEnv(op, "token", <<>>)
  /\ UNCHANGED accessToken
  /\ IF router = "express4"
     THEN /\ catRes' = NoCatRes
          /\ unhandled' = TRUE
     ELSE /\ catRes' = [status |-> 500, json |-> FALSE,
                        error |-> "Internal Server Error", body |-> {}]
          /\ unhandled' = FALSE

\* catalog route requests are taken one after the other: a request is taken
\* when the previous one is over (EndRequest)
idle ==
  /\ catEnv = NoCatEnv
  /\ UNCHANGED <<users, playlists, songs, res, saved, moodIn, moodOut, procVars>>

someFailed(fetch) == \E i \in 1..Len(fetch) : ~fetch[i].ok

\* GET /api/mixed-hits
MixedHits(tokenOk, router, fetch) ==
  /\ idle
  /\ IF tokenFails(tokenOk) THEN escapes("mixed-hits", router)
     ELSE /\ accessToken' = Token
          /\ unhandled' = FALSE
          /\ IF someFailed(fetch)
             THEN /\ catEnv' = CatEnv("mixed-hits", "upstream", fetch)
                  /\ catRes' = Json(500, "Failed to fetch songs", {})
             ELSE LET songs0 ==
                        {[id |-> <<i, k>>,
                          language |-> guessLanguage(fetch[i].items[k])] :
                           <<i, k>> \in {x \in (1..Len(fetch)) \X (1..MaxFetched + 1) :
                                           /\ x[2] <= Len(fetch[x[1]].items)
                                           /\ fetch[x[1]].items[x[2]].track}}
                  IN \E body \in ShuffledSlice(songs0, SliceLimit) :
                       /\ catEnv' = CatEnv("mixed-hits", "none", fetch)
                       /\ catRes' = Json(200, "", body)

\* the per-artist loop and the mapping of /api/mixed and /api/mixed1
artistSongs(artists, fetch) ==
  {[id |-> <<x[1], x[2]>>, language |-> artists[x[1]].language] :
     x \in {y \in (1..Len(artists)) \X (1..MaxFetched + 1) :
              /\ fetch[y[1]].ok
              /\ y[2] <= Min(Len(fetch[y[1]].items), artists[y[1]].count)}}

\* GET /api/mixed
Mixed(tokenOk, router, fetch) ==
  /\ idle
  /\ IF tokenFails(tokenOk) THEN escapes("mixed", router)
     ELSE /\ accessToken' = Token
          /\ unhandled' = FALSE
          /\ catEnv' = CatEnv("mixed", IF someFailed(fetch) THEN "source" ELSE "none",
                              fetch)
          /\ catRes' = Json(200, "", artistSongs(mixedArtists, fetch))

\* GET /api/mixed1
Mixed1(tokenOk, router, fetch) ==
  /\ idle
  /\ IF tokenFails(tokenOk) THEN escapes("mixed1", router)
     ELSE /\ accessToken' = Token
          /\ unhandled' = FALSE
          /\ catEnv' = CatEnv("mixed1", IF someFailed(fetch) THEN "source" ELSE "none",
                              fetch)
          /\ \E body \in ShuffledSlice(artistSongs(mixed1Artists, fetch), SliceLimit) :
               catRes' = Json(200, "", body)

plainSongs(answer) == {[id |-> <<1, k>>, language |-> ""] : k \in 1..Len(answer.items)}

\* GET /api/new-releases
NewReleases(tokenOk, router, answer) ==
  /\ idle
  /\ IF tokenFails(tokenOk) THEN escapes("new-releases", router)
     ELSE /\ accessToken' = Token
          /\ unhandled' = FALSE
          /\ IF ~answer.ok
             THEN /\ catEnv' = CatEnv("new-releases", "upstream", <<answer>>)
                  /\ catRes' = Json(500, "Failed to fetch new releases", {})
             ELSE /\ catEnv' = CatEnv("new-releases", "none", <<answer>>)
                  /\ catRes' = Json(200, "", plainSongs(answer))

\* GET /api/songs/:mood
SongsByMood(mood, tokenOk, router, answer) ==
  /\ idle
  /\ IF mood = ""
     THEN /\ catEnv' = CatEnv("songs", "none", <<>>)
          /\ catRes' = Json(400, "Mood parameter is required", {})
          /\ unhandled' = FALSE
          /\ UNCHANGED accessToken
     ELSE IF tokenFails(tokenOk) THEN escapes("songs", router)
     ELSE /\ accessToken' = Token
          /\ unhandled' = FALSE
          /\ IF ~answer.ok
             THEN /\ catEnv' = CatEnv("songs", "upstream", <<answer>>)
                  /\ catRes' = Json(500, "Failed to fetch songs from Spotify", {})
             ELSE IF Len(answer.items) = 0
             THEN /\ catEnv' = CatEnv("songs", "none", <<answer>>)
                  /\ catRes' = Json(404, "No songs found", {})
             ELSE /\ catEnv' = CatEnv("songs", "none", <<answer>>)
                  /\ catRes' = Json(200, "", plainSongs(answer))

\* GET /api/search/songs
SearchSongs(q, tokenOk, router, answer) ==
  /\ idle
  /\ IF q = ""
     THEN /\ catEnv' = CatEnv("search", "none", <<>>)
          /\ catRes' = Json(400, "Search query is required", {})
          /\ unhandled' = FALSE
          /\ UNCHANGED accessToken
     ELSE IF tokenFails(tokenOk) THEN escapes("search", router)
     ELSE /\ accessToken' = Token
          /\ unhandled' = FALSE
          /\ IF ~answer.ok
             THEN /\ catEnv' = CatEnv("search", "upstream", <<answer>>)
                  /\ catRes' = Json(500, "Failed to search songs", {})
             ELSE /\ catEnv' = CatEnv("search", "none", <<answer>>)
                  /\ catRes' = Json(200, "", plainSongs(answer))

\* GET /api/artist-top-tracks/:artistId
\* fetch: the answers of the top-tracks request, of the album requests and of
\* the name search; special: whether artistId is a key of specialArtists
ArtistTopTracks(special, tokenOk, router, fetch) ==
  /\ idle
  /\ IF tokenFails(tokenOk) THEN escapes("artist-top-tracks", router)
     ELSE LET stage == IF Len(fetch[1].items) > 0 THEN 1
                       ELSE IF Len(fetch[2].items) > 0 THEN 2
                       ELSE IF special THEN 3
                       ELSE 2
              used == SubSeq(fetch, 1, stage)
          IN /\ accessToken' = Token
             /\ unhandled' = FALSE
             /\ catEnv' = CatEnv("artist-top-tracks",
                                 IF someFailed(used) THEN "source" ELSE "none", used)
             /\ catRes' = Json(200, "",
                               {[id |-> <<stage, k>>, language |-> ""] :
                                  k \in 1..Len(fetch[stage].items)})

\* the request is over; the cached credential stays
EndRequest ==
  /\ catEnv # NoCatEnv
  /\ catEnv' = NoCatEnv
  /\ catRes' = NoCatRes
  /\ unhandled' = FALSE
  /\ UNCHANGED <<users, playlists, songs, accessToken, res, saved, moodIn, moodOut,
               procVars>>

InitCatalog ==
  /\ users = [u \in UserIds |-> [playlists |-> <<>>]]
  /\ playlists = <<>>
  /\ songs = [t \in {} |-> 0]
  /\ accessToken = NoToken
  /\ res = NoRes
  /\ saved = FALSE
  /\ moodIn = NoMoodCall
  /\ moodOut = NotRun
  /\ catEnv = NoCatEnv
  /\ catRes = NoCatRes
  /\ unhandled = FALSE
  /\ procs = NoProcs

NextCatalog ==
  \/ /\ catEnv = NoCatEnv
     /\ \E tokenOk \in BOOLEAN, router \in Routers,
           fetch \in [1..Len(mixedHitsPlaylists) -> PlaylistAnswers] :
          MixedHits(tokenOk, router, fetch)
  \/ /\ catEnv = NoCatEnv
     /\ \E tokenOk \in BOOLEAN, router \in Routers,
           A \in ActiveSets(Len(mixedArtists)) :
          \E g \in [A -> TrackAnswers] :
            Mixed(tokenOk, router, SourceAnswers(Len(mixedArtists), A, g))
  \/ /\ catEnv = NoCatEnv
     /\ \E tokenOk \in BOOLEAN, router \in Routers,
           A \in ActiveSets(Len(mixed1Artists)) :
          \E g \in [A -> TrackAnswers] :
            Mixed1(tokenOk, router, SourceAnswers(Len(mixed1Artists), A, g))
  \/ /\ catEnv = NoCatEnv
     /\ \E tokenOk \in BOOLEAN, router \in Routers, answer \in TrackAnswers :
          NewReleases(tokenOk, router, answer)
  \/ /\ catEnv = NoCatEnv
     /\ \E mood \in {"happy"}, tokenOk \in BOOLEAN, router \in Routers,
           answer \in TrackAnswers :
          SongsByMood(mood, tokenOk, router, answer)
  \/ /\ catEnv = NoCatEnv
     /\ \E q \in {"", "tum"}, tokenOk \in BOOLEAN, router \in Routers,
           answer \in TrackAnswers :
          SearchSongs(q, tokenOk, router, answer)
  \/ /\ catEnv = NoCatEnv
     /\ \E special \in BOOLEAN, tokenOk \in BOOLEAN, router \in Routers,
           fetch \in [1..3 -> TrackAnswers] :
          ArtistTopTracks(special, tokenOk, router, fetch)
  \/ EndRequest

SpecCatalog == InitCatalog /\ [][NextCatalog]_vars

\* ------------------------------------------- the cached catalog credential
\* Requests that call ensureAccessToken, followed await by await: a request
\* that found no credential waits for the credential request of
\* getAccessToken while other requests run.
NewRequest == [pc |-> "new", hadToken |-> FALSE, token |-> NoToken]

noAccessTokenAlways == TRUE

\* !accessToken
noAccessToken == accessToken = NoToken

\* ensureAccessToken up to the await of getAccessToken's axios.post; with a
\* credential cached it returns and the handler reads accessToken for its
\* Authorization header
\* hadToken: whether a credential was cached when the request made this call
EnsureAccessToken(i) ==
  /\ procs[i].pc = "new"
  /\ IF noAccessToken
     THEN procs' = [procs EXCEPT ![i] = [pc |-> "fetching",
                                         hadToken |-> accessToken # NoToken,
                                         token |-> NoToken]]
     ELSE procs' = [procs EXCEPT ![i] = [pc |-> "ready",
                                         hadToken |-> accessToken # NoToken,
                                         token |-> accessToken]]
  /\ UNCHANGED <<storeVars, accessToken, res, saved, moodVars, catVars>>

\* getAccessToken after its await: accessToken = response.data.access_token,
\* or the rejection is rethrown
GetAccessToken(i, ok, access_token) ==
  /\ procs[i].pc = "fetching"
  /\ IF ok
     THEN /\ accessToken' = access_token
          /\ procs' = [procs EXCEPT ![i].pc = "ready", ![i].token = access_token]
     ELSE /\ UNCHANGED accessToken
          /\ procs' = [procs EXCEPT ![i].pc = "failed"]
  /\ UNCHANGED <<storeVars, res, saved, moodVars, catVars>>

\* the request is answered; the next request of this connection comes in
NextRequest(i) ==
  /\ procs[i].pc \in {"ready", "failed"}
  /\ procs' = [procs EXCEPT ![i] = NewRequest]
  /\ UNCHANGED <<storeVars, accessToken, res, saved, moodVars, catVars>>

InitToken ==
  /\ users = [u \in UserIds |-> [playlists |-> <<>>]]
  /\ playlists = <<>>
  /\ songs = [t \in {} |-> 0]
  /\ accessToken = NoToken
  /\ res = NoRes
  /\ saved = FALSE
  /\ moodIn = NoMoodCall
  /\ moodOut = NotRun
  /\ catEnv = NoCatEnv
  /\ catRes = NoCatRes
  /\ unhandled = FALSE
  /\ procs = [i \in 1..MaxRequests |-> NewRequest]

NextToken ==
  \/ \E i \in 1..MaxRequests : EnsureAccessToken(i)
  \/ \E i \in 1..MaxRequests, ok \in BOOLEAN, access_token \in Tokens :
       GetAccessToken(i, ok, access_token)
  \/ \E i \in 1..MaxRequests : NextRequest(i)

SpecToken == InitToken /\ [][NextToken]_vars

\* ------------------------------------------------------- syncWithSpotify
\* A field of the catalog payload: absent (reads as undefined) or present with
\* a value.  Names are code-unit sequences, descriptions, ids and images are
\* atoms; an image atom stands for a {url, height, width} triple.
Absent(v) == [present |-> FALSE, value |-> v]
Present(v) == [present |-> TRUE, value |-> v]

\* a || b for a payload field a whose empty value is falsy
OrElse(field, empty, old) ==
  IF field.present /\ field.value # empty THEN field.value ELSE old

\* playlistSchema.methods.syncWithSpotify, the document it saves
syncWithSpotify(p, spotifyData) ==
  [p EXCEPT
     !.name = OrElse(spotifyData.name, <<>>, @),
     !.description = OrElse(spotifyData.description, "", @),
     !.spotifyId = OrElse(spotifyData.id, "", @),
     !.image = IF spotifyData.images.present /\ Len(spotifyData.images.value) > 0
               THEN spotifyData.images.value[1]
               ELSE @]

SpotifyPayloads ==
  [name : {Absent(<<>>), Present(<<>>), Present(Work), Present(chill)},
   description : {Absent(""), Present(""), Present("new")},
   id : {Absent(""), Present("sp1")},
   images : {Absent(<<>>), Present(<<>>), Present(<<"img1">>),
             Present(<<"img1", "img2">>)}]

\* await playlist.syncWithSpotify(spotifyData)
SyncWithSpotify(p, spotifyData) ==
  /\ p \in PlaylistIds
  /\ playlists' = [playlists EXCEPT ![p] = syncWithSpotify(playlists[p], spotifyData)]
  /\ saved' = TRUE
  /\ UNCHANGED <<users, songs, accessToken, res, moodVars, catVars, procVars>>

\* stored playlists a sync can meet: any name, description, image and songs
SongLists ==
  {s \in SeqsUpTo(AllSongIds, MaxRefs) :
     \A i, j \in 1..Len(s) : s[i] = s[j] => i = j}

InitSync ==
  /\ \E name \in {Chill, Work}, description \in {"", "old"},
        image \in {NoImage, "img0"}, list \in SongLists :
       playlists = <<[NewPlaylist(name, description, 1) EXCEPT
                        !.image = image, !.songs = list]>>
  /\ users = [u \in UserIds |-> [playlists |-> IF u = 1 THEN <<1>> ELSE <<>>]]
  /\ songs = [t \in CatalogTracks |-> songObjectId(t)]
  /\ accessToken = NoToken
  /\ res = NoRes
  /\ saved = FALSE
  /\ moodIn = NoMoodCall
  /\ moodOut = NotRun
  /\ catEnv = NoCatEnv
  /\ catRes = NoCatRes
  /\ unhandled = FALSE
  /\ procs = NoProcs

NextSync ==
  \E p \in PlaylistIds, spotifyData \in SpotifyPayloads :
    SyncWithSpotify(p, spotifyData)

SpecSync == InitSync /\ [][NextSync]_vars

\* --------------------------------------- POST /api/playlists, interleaved
\* The handler followed await by await; between two awaits of one request the
\* other requests run.  Each request keeps its own response.
Idle == [pc |-> "idle", u |-> 0, name |-> NoName, user |-> <<>>, id |-> 0,
         status |-> 0, error |-> ""]

\* user.playlists.find(p => p.name.toLowerCase() === name.toLowerCase()) on
\* the populated document the request loaded
existingPlaylistOf(user, name) ==
  \E i \in 1..Len(user) : toLowerCase(user[i]) = toLowerCase(name)

Responded(proc, status, error) ==
  [proc EXCEPT !.pc = "done", !.status = status, !.error = error]

\* the request comes in; up to the await of User.findById
CreateRequest(i, u, name) ==
  /\ procs[i].pc = "idle"
  /\ IF name = NoName
     THEN procs' = [procs EXCEPT ![i] =
                      Responded([Idle EXCEPT !.u = u, !.name = name],
                                400, "Playlist name is required")]
     ELSE procs' = [procs EXCEPT ![i] =
                      [Idle EXCEPT !.pc = "findById", !.u = u, !.name = name]]
  /\ UNCHANGED <<storeVars, accessToken, res, saved, moodVars, catVars>>

\* User.findById(userId).populate('playlists') resolves with the stored
\* references and names; the name check; up to the await of playlist.save()
CreateFindUser(i) ==
  /\ procs[i].pc = "findById"
  /\ LET u == procs[i].u
         user == [k \in 1..Len(users[u].playlists) |->
                    playlists[users[u].playlists[k]].name]
     IN IF u \notin DOMAIN users
        THEN procs' = [procs EXCEPT ![i] = Responded(@, 404, "User not found")]
        ELSE IF existingPlaylistOf(user, procs[i].name)
        THEN procs' = [procs EXCEPT ![i] =
                         Responded(@, 400, "A playlist with this name already exists")]
        ELSE procs' = [procs EXCEPT ![i].pc = "savePlaylist", ![i].user = user]
  /\ UNCHANGED <<storeVars, accessToken, res, saved, moodVars, catVars>>

\* playlist.save() inserts the document; user.playlists.push(playlist._id);
\* up to the await of user.save()
CreateSavePlaylist(i) ==
  /\ procs[i].pc = "savePlaylist"
  /\ LET id == Cardinality(PlaylistIds) + 1
     IN /\ id <= MaxPlaylists
        /\ playlists' = [q \in PlaylistIds \cup {id} |->
                           IF q = id THEN NewPlaylist(procs[i].name, "", procs[i].u)
                           ELSE playlists[q]]
        /\ procs' = [procs EXCEPT ![i].pc = "saveUser", ![i].id = id]
  /\ saved' = TRUE
  /\ UNCHANGED <<users, songs, accessToken, res, moodVars, catVars>>

\* user.save() sends the pushed reference as a $push on the stored array;
\* res.status(201).json(...)
CreateSaveUser(i) ==
  /\ procs[i].pc = "saveUser"
  /\ users' = [users EXCEPT ![procs[i].u].playlists = Append(@, procs[i].id)]
  /\ procs' = [procs EXCEPT ![i] = Responded(@, 201, "")]
  /\ UNCHANGED <<playlists, songs, accessToken, res, saved, moodVars, catVars>>

\* the response is out; the client may send its next request
CreateDone(i) ==
  /\ procs[i].pc = "done"
  /\ procs' = [procs EXCEPT ![i] = Idle]
  /\ UNCHANGED <<storeVars, accessToken, res, saved, moodVars, catVars>>

InitCreate ==
  /\ users = [u \in UserIds |-> [playlists |-> <<>>]]
  /\ playlists = <<>>
  /\ songs = [t \in {} |-> 0]
  /\ accessToken = NoToken
  /\ res = NoRes
  /\ saved = FALSE
  /\ moodIn = NoMoodCall
  /\ moodOut = NotRun
  /\ catEnv = NoCatEnv
  /\ catRes = NoCatRes
  /\ unhandled = FALSE
  /\ procs = [i \in 1..MaxClients |-> Idle]

NextCreate ==
  \/ \E i \in 1..MaxClients, u \in UserIds, name \in PlaylistNames \cup {NoName} :
       CreateRequest(i, u, name)
  \/ \E i \in 1..MaxClients : CreateFindUser(i)
  \/ \E i \in 1..MaxClients : CreateSavePlaylist(i)
  \/ \E i \in 1..MaxClients : CreateSaveUser(i)
  \/ \E i \in 1..MaxClients : CreateDone(i)

SpecCreate == InitCreate /\ [][NextCreate]_vars

\* ------------------------- POST /api/playlists/:playlistId/songs, interleaved
\* playlist: the songs of the document the request loaded, with its own pushes
NoAddSong == [pc |-> "idle", u |-> 0, p |-> 0, spotifyId |-> 0, playlist |-> <<>>,
              songId |-> 0, status |-> 0, error |-> ""]

\* the request comes in; up to the await of Playlist.findById
AddSongRequest(i, u, p, spotifyId) ==
  /\ procs[i].pc = "idle"
  /\ LET req == [NoAddSong EXCEPT !.u = u, !.p = p, !.spotifyId = spotifyId]
     IN IF spotifyId \in NoTrack
        THEN procs' = [procs EXCEPT ![i] =
                         Responded(req, 400, "Spotify track ID is required")]
        ELSE procs' = [procs EXCEPT ![i] = [req EXCEPT !.pc = "findById"]]
  /\ UNCHANGED <<storeVars, accessToken, res, saved, moodVars, catVars>>

\* Playlist.findById resolves with the stored document; the owner check;
\* ensureAccessToken up to the await of the credential request, or with a
\* credential cached up to the await of the track request
AddSongFindPlaylist(i) ==
  /\ procs[i].pc = "findById"
  /\ IF procs[i].p \notin PlaylistIds
     THEN procs' = [procs EXCEPT ![i] = Responded(@, 404, "Playlist not found")]
     ELSE IF ~isOwner(procs[i].p, procs[i].u)
     THEN procs' = [procs EXCEPT ![i] =
                      Responded(@, 403, "Unauthorized: Not your playlist")]
     ELSE procs' = [procs EXCEPT
                      ![i].playlist = playlists[procs[i].p].songs,
                      ![i].pc = IF noAccessToken THEN "getAccessToken"
                                ELSE "getTrack"]
  /\ UNCHANGED <<storeVars, accessToken, res, saved, moodVars, catVars>>

\* getAccessToken resolves or rejects; up to the await of the track request
AddSongGetAccessToken(i, ok, access_token) ==
  /\ procs[i].pc = "getAccessToken"
  /\ IF ok
     THEN /\ accessToken' = access_token
          /\ procs' = [procs EXCEPT ![i].pc = "getTrack"]
     ELSE /\ UNCHANGED accessToken
          /\ procs' = [procs EXCEPT ![i] =
                         Responded(@, 500, "Failed to add song to playlist")]
  /\ UNCHANGED <<storeVars, res, saved, moodVars, catVars>>

\* the track request resolves or rejects; up to the await of
\* Song.findOneAndUpdate
AddSongGetTrack(i) ==
  /\ procs[i].pc = "getTrack"
  /\ IF procs[i].spotifyId \in CatalogTracks
     THEN procs' = [procs EXCEPT ![i].pc = "findOneAndUpdate"]
     ELSE procs' = [procs EXCEPT ![i] =
                      Responded(@, 500, "Failed to add song to playlist")]
  /\ UNCHANGED <<storeVars, accessToken, res, saved, moodVars, catVars>>

\* Song.findOneAndUpdate resolves; playlist.addSong on the loaded document up
\* to the await of this.save(), or to the response when the document has the
\* song
AddSongUpsert(i) ==
  /\ procs[i].pc = "findOneAndUpdate"
  /\ songs' = upsertSong(procs[i].spotifyId)
  /\ LET songId == upsertSong(procs[i].spotifyId)[procs[i].spotifyId]
     IN IF ~Includes(procs[i].playlist, songId)
        THEN procs' = [procs EXCEPT ![i].pc = "save", ![i].songId = songId,
                                    ![i].playlist = Append(@, songId)]
        ELSE procs' = [procs EXCEPT ![i] =
                         Responded([@ EXCEPT !.songId = songId], 200, "")]
  /\ UNCHANGED <<users, playlists, accessToken, res, saved, moodVars, catVars>>

\* this.save() sends the pushed element as a $push on the stored array;
\* res.json(...)
AddSongSave(i) ==
  /\ procs[i].pc = "save"
  /\ SumLen(playlists, PlaylistIds) < MaxRefs
  /\ playlists' = [playlists EXCEPT ![procs[i].p].songs = Append(@, procs[i].songId)]
  /\ saved' = TRUE
  /\ procs' = [procs EXCEPT ![i] = Responded(@, 200, "")]
  /\ UNCHANGED <<users, songs, accessToken, res, moodVars, catVars>>

\* the response is out; the client may send its next request
AddSongDone(i) ==
  /\ procs[i].pc = "done"
  /\ procs' = [procs EXCEPT ![i] = NoAddSong]
  /\ UNCHANGED <<storeVars, accessToken, res, saved, moodVars, catVars>>

\* owner 1 holds one playlist without songs
InitAddSong ==
  /\ users = [u \in UserIds |-> [playlists |-> IF u = 1 THEN <<1>> ELSE <<>>]]
  /\ playlists = <<NewPlaylist(Chill, "", 1)>>
  /\ songs = [t \in {} |-> 0]
  /\ accessToken = NoToken
  /\ res = NoRes
  /\ saved = FALSE
  /\ moodIn = NoMoodCall
  /\ moodOut = NotRun
  /\ catEnv = NoCatEnv
  /\ catRes = NoCatRes
  /\ unhandled = FALSE
  /\ procs = [i \in 1..MaxClients |-> NoAddSong]

NextAddSong ==
  \/ \E i \in 1..MaxClients, u \in UserIds, p \in 1..MaxPlaylists,
        spotifyId \in RequestedTracks :
       AddSongRequest(i, u, p, spotifyId)
  \/ \E i \in 1..MaxClients : AddSongFindPlaylist(i)
  \/ \E i \in 1..MaxClients, ok \in BOOLEAN, access_token \in Tokens :
       AddSongGetAccessToken(i, ok, access_token)
  \/ \E i \in 1..MaxClients : AddSongGetTrack(i)
  \/ \E i \in 1..MaxClients : AddSongUpsert(i)
  \/ \E i \in 1..MaxClients : AddSongSave(i)
  \/ \E i \in 1..MaxClients : AddSongDone(i)

SpecAddSong == InitAddSong /\ [][NextAddSong]_vars

\* ================================================================ claims
\* two names are equal ignoring letter case
SameIgnoringCase(a, b) ==
  /\ Len(a) = Len(b)
  /\ \A i \in 1..Len(a) :
       \/ a[i] = b[i]
       \/ a[i] \in 65..90 /\ b[i] = a[i] + 32
       \/ b[i] \in 65..90 /\ a[i] = b[i] + 32

HoldsName(u, name) ==
  \E i \in 1..Len(users[u].playlists) :
    SameIgnoringCase(playlists[users[u].playlists[i]].name, name)

Created(u, name) ==
  \E id \in DOMAIN playlists' \ DOMAIN playlists :
    /\ DOMAIN playlists' = DOMAIN playlists \cup {id}
    /\ \A q \in DOMAIN playlists : playlists'[q] = playlists[q]
    /\ playlists'[id].name = name
    /\ playlists'[id].user = u
    /\ playlists'[id].songs = <<>>
    /\ users'[u].playlists = Append(users[u].playlists, id)
    /\ \A v \in UserIds \ {u} : users'[v] = users[v]
    /\ res'.status = 201
    /\ res'.body = <<id>>

\* C1: create by an existing owner with a name fails with the duplicate-name
\* rejection (status 400, "A playlist with this name already exists") and adds
\* nothing whenever the owner's collection holds a playlist whose name equals
\* the requested one ignoring case; otherwise it stores a new playlist with no
\* songs, owned by the owner, and appends its reference at the end of the
\* owner's collection.
C1_CreateConflictOrAppend ==
  [][\A u \in UserIds, name \in PlaylistNames :
       res'.op = "create" /\ CreatePlaylist(u, name, "") =>
         IF HoldsName(u, name)
         THEN /\ res'.status = 400
              /\ res'.error = "A playlist with this name already exists"
              /\ UNCHANGED storeVars
         ELSE Created(u, name)]_vars

\* a create was refused for an owner who already holds two playlists
C1_Witness ==
  /\ res.op = "create"
  /\ res.error = "A playlist with this name already exists"
  /\ \E u \in UserIds : Len(users[u].playlists) = 2

Count(list, x) == Cardinality({i \in 1..Len(list) : list[i] = x})

\* C2: every stored playlist holds at most one reference to each song; an
\* addSong by the owner for a resolving track already in the playlist answers
\* with success and leaves the song list as it was; and after every successful
\* addSong the playlist holds exactly one reference to the song.
C2_AtMostOneReference ==
  /\ [](\A p \in PlaylistIds, s \in AllSongIds : Count(playlists[p].songs, s) <= 1)
  /\ [][\A u \in UserIds, p \in PlaylistIds :
          res'.op = "addSong" /\ playlists[p].user = u =>
            \A t \in CatalogTracks, tokenOk \in TokenOutcomes :
              AddSongToPlaylist(u, p, t, tokenOk) =>
                /\ (t \in DOMAIN songs /\ Count(playlists[p].songs, songs[t]) > 0) =>
                     /\ res'.status = 200
                     /\ playlists'[p].songs = playlists[p].songs
                /\ res'.status = 200 =>
                     Count(playlists'[p].songs, songs'[t]) = 1]_vars

\* an addSong for a song already in a two-song playlist was answered with
\* success and saved nothing
C2_Witness ==
  /\ res.op = "addSong"
  /\ res.status = 200
  /\ saved = FALSE
  /\ Len(res.body) = 2

\* C3 (as claimed): removeSong by the owner for a song that is not in the
\* playlist answers with success and leaves the playlist unchanged, whatever
\* the playlist holds.
C3_RemoveAbsentSucceeds ==
  [][\A u \in UserIds, p \in PlaylistIds, s \in AllSongIds :
       ( /\ RemoveSongFromPlaylist(u, p, s)
         /\ playlists[p].user = u
         /\ Count(playlists[p].songs, s) = 0 ) =>
           /\ res'.status = 200
           /\ playlists' = playlists]_vars

\* C4: a requester who is not the owner of a stored playlist gets 403 from
\* addSong (for a request that names a track), removeSong and play, and the
\* Playlist, User and Song collections are left as they were.
C4_NonOwnerForbidden ==
  [][\A u \in UserIds, p \in PlaylistIds :
       playlists[p].user # u =>
         /\ \A t \in CatalogTracks \cup UnknownTracks, tokenOk \in TokenOutcomes :
              res'.op = "addSong" /\ AddSongToPlaylist(u, p, t, tokenOk) =>
                res'.status = 403 /\ UNCHANGED storeVars
         /\ \A s \in AllSongIds :
              res'.op = "removeSong" /\ RemoveSongFromPlaylist(u, p, s) =>
                res'.status = 403 /\ UNCHANGED storeVars
         /\ res'.op = "play" /\ PlayPlaylist(u, p) =>
              res'.status = 403 /\ UNCHANGED storeVars]_vars

\* a removeSong was refused with 403 while a playlist holds songs
C4_Witness ==
  /\ res.op = "removeSong"
  /\ res.status = 403
  /\ \E p \in PlaylistIds : playlists[p].songs # <<>>

FirstOfName(list) ==
  {i \in 1..Len(list) :
     \A j \in 1..(i - 1) :
       ~SameIgnoringCase(playlists[list[j]].name, playlists[list[i]].name)}

\* C5: list(owner) returns, of the owner's stored references, exactly those
\* that are the first with their name ignoring case, in stored order.
C5_ListFirstOfEachName ==
  [][\A u \in UserIds :
       ListPlaylists(u) =>
         LET list == users[u].playlists
             first == FirstOfName(list)
         IN /\ res'.status = 200
            /\ Len(res'.body) = Cardinality(first)
            /\ \A k \in 1..Len(res'.body) :
                 \E i \in first :
                   /\ res'.body[k] = list[i]
                   /\ Cardinality({j \in first : j < i}) = k - 1]_vars

\* stored "Chill", "chill", "Work" for one owner were listed as the first and
\* the third
C5_Witness ==
  /\ res.op = "list"
  /\ \E u \in UserIds :
       /\ Len(users[u].playlists) = 3
       /\ playlists[users[u].playlists[1]].name = Chill
       /\ playlists[users[u].playlists[2]].name = chill
       /\ playlists[users[u].playlists[3]].name = Work
       /\ res.body = <<users[u].playlists[1], users[u].playlists[3]>>

InBox(f, m) ==
  /\ f # Null
  /\ \A d \in Dims : f[d] \in moodProfiles[m][d][1]..moodProfiles[m][d][2]

\* C6: for a configured mood and a successful feature lookup the filter
\* returns exactly the tracks that have features with valence, energy and
\* danceability each inside the mood's closed interval, in input order.
C6_FilterKeepsExactlyTheBox ==
  (moodOut # NotRun /\ moodIn.mood \in ConfiguredMoods /\ moodIn.lookupOk) =>
    LET kept == {i \in 1..Len(moodIn.tracks) :
                   InBox(moodIn.audio_features[i], moodIn.mood)}
    IN /\ Len(moodOut) = Cardinality(kept)
       /\ \A k \in 1..Len(moodOut) :
            \E i \in kept :
              /\ moodOut[k] = moodIn.tracks[i]
              /\ Cardinality({j \in kept : j < i}) = k - 1

\* "happy" kept a track whose valence is exactly the lower bound and dropped a
\* track without features
C6_Witness ==
  /\ moodIn.mood = "happy"
  /\ moodIn.lookupOk
  /\ Len(moodIn.tracks) = 2
  /\ moodIn.audio_features[1] = Null
  /\ moodIn.audio_features[2] = Corner("happy", 1)
  /\ moodOut = <<2>>

\* C7 (as claimed): for every mood string that is not a configured label the
\* filter returns the input track list unchanged.
C7_UnknownMoodPassThrough ==
  (moodOut # NotRun /\ moodIn.mood \notin ConfiguredMoods) =>
    moodOut = moodIn.tracks

AggregatorOps == {"mixed-hits", "mixed", "mixed1"}

SourceLanguage(op, i) ==
  IF op = "mixed-hits" THEN mixedHitsPlaylists[i].language
  ELSE IF op = "mixed" THEN mixedArtists[i].language
  ELSE mixed1Artists[i].language

\* C8 (as claimed): every track in the response of an aggregator endpoint
\* carries the language label of the source it was fetched from.
C8_TracksCarrySourceLabel ==
  catEnv.op \in AggregatorOps =>
    \A song \in catRes.body : song.language = SourceLanguage(catEnv.op, song.id[1])

SourceCount(op, i) ==
  IF op = "mixed-hits" THEN mixedHitsPlaylists[i].limit
  ELSE IF op = "mixed" THEN mixedArtists[i].count
  ELSE mixed1Artists[i].count

\* C9 (as claimed): when the credential is available, an aggregator endpoint
\* answers with success whatever sources fail, and the response contains the
\* tracks (up to the source's count) of every source that resolved.
C9_FailedSourceDoesNotAbort ==
  (catEnv.op \in AggregatorOps /\ catEnv.failure # "token") =>
    /\ catRes.status = 200
    /\ \A i \in 1..Len(catEnv.fetch) :
         catEnv.fetch[i].ok =>
           \A k \in 1..Min(Len(catEnv.fetch[i].items), SourceCount(catEnv.op, i)) :
             catEnv.fetch[i].items[k].track =>
               \E song \in catRes.body : song.id = <<i, k>>

\* C10 (as claimed): every request gets a JSON response, no rejection escapes
\* the handler, and a failed credential fetch or a failed catalog request is
\* answered with an error status.
C10_FailuresAnsweredAsJson ==
  catEnv.op # "none" =>
    /\ unhandled = FALSE
    /\ catRes.status # 0
    /\ catRes.json
    /\ catEnv.failure \in {"token", "upstream"} => catRes.status >= 400

\* C11: once a credential is cached, a request that calls ensureAccessToken
\* starts no credential request and goes on with the cached credential; the
\* cached credential is never cleared; and no request that made its call while
\* a credential was cached changes the cached credential.
C11_CredentialFetchedOnceAndReused ==
  [][\A i \in 1..MaxRequests :
       /\ (accessToken # NoToken /\ EnsureAccessToken(i)) =>
            /\ procs'[i].pc = "ready"
            /\ procs'[i].token = accessToken
            /\ accessToken' = accessToken
       /\ accessToken # NoToken => accessToken' # NoToken
       /\ (procs[i].hadToken /\ procs'[i] # procs[i]) =>
            accessToken' = accessToken]_vars

\* two requests that called ensureAccessToken with a credential cached are
\* going on with it, none of them having requested a credential
C11_Witness ==
  /\ accessToken # NoToken
  /\ \E i, j \in 1..MaxRequests :
       /\ i # j
       /\ procs[i].pc = "ready" /\ procs[i].hadToken /\ procs[i].token = accessToken
       /\ procs[j].pc = "ready" /\ procs[j].hadToken /\ procs[j].token = accessToken

\* C12 (as claimed): addSong answers 404 when the playlist does not exist and
\* when the owner's request names a track that does not resolve at the catalog
\* service (the credential being available); in both cases the Playlist
\* collection is left as it was.
C12_AddSongNotFound ==
  [][\A u \in UserIds, p \in 1..MaxPlaylists,
        t \in CatalogTracks \cup UnknownTracks, tokenOk \in TokenOutcomes :
       ( /\ res'.op = "addSong"
         /\ AddSongToPlaylist(u, p, t, tokenOk)
         /\ \/ p \notin PlaylistIds
            \/ /\ p \in PlaylistIds
               /\ isOwner(p, u)
               /\ ~tokenFails(tokenOk)
               /\ t \in UnknownTracks ) =>
         /\ res'.status = 404
         /\ playlists' = playlists]_vars

\* C13 (as claimed): a sync sets name and description to the payload's value
\* whenever the payload has the field, whatever the value, and sets the cover
\* image to the payload's first image whenever the payload has one; a field
\* the payload lacks keeps its value; the song list is never changed.
C13_SyncOverwritesPresentFields ==
  [][\A p \in PlaylistIds, spotifyData \in SpotifyPayloads :
       SyncWithSpotify(p, spotifyData) =>
         /\ playlists'[p].name =
              IF spotifyData.name.present THEN spotifyData.name.value
              ELSE playlists[p].name
         /\ playlists'[p].description =
              IF spotifyData.description.present THEN spotifyData.description.value
              ELSE playlists[p].description
         /\ ~spotifyData.images.present =>
              playlists'[p].image = playlists[p].image
         /\ (spotifyData.images.present /\ spotifyData.images.value # <<>>) =>
              playlists'[p].image = spotifyData.images.value[1]
         /\ playlists'[p].songs = playlists[p].songs]_vars

\* C14 (as claimed): with create requests interleaved at their awaits and no
\* other operation running, no owner ever holds two references to playlists
\* whose names are equal ignoring case, and no two requests of one owner with
\* such names are both answered 201.
C14_InterleavedCreateKeepsNamesUnique ==
  /\ \A u \in UserIds :
       \A i, j \in 1..Len(users[u].playlists) :
         SameIgnoringCase(playlists[users[u].playlists[i]].name,
                          playlists[users[u].playlists[j]].name) => i = j
  /\ \A i, j \in 1..MaxClients :
       ( /\ procs[i].status = 201 /\ procs[j].status = 201
         /\ procs[i].u = procs[j].u
         /\ SameIgnoringCase(procs[i].name, procs[j].name) ) => i = j

\* C15 (as claimed): when two interleaved addSong requests for the same song
\* on the same playlist have both been answered with success, the stored
\* playlist holds exactly one reference to that song.
C15_InterleavedAddSongKeepsOneReference ==
  \A i, j \in 1..MaxClients :
    ( /\ i # j
      /\ procs[i].pc = "done" /\ procs[i].status = 200
      /\ procs[j].pc = "done" /\ procs[j].status = 200
      /\ procs[i].p = procs[j].p
      /\ procs[i].songId = procs[j].songId ) =>
      Count(playlists[procs[i].p].songs, procs[i].songId) = 1
====
